---- MODULE Spec2Model ----
(***************************************************************************)
(* Model of the ESLint rule "extract-tailwind-classes"                     *)
(* (src/src/rules/extract-tailwind-classes/index.ts).                      *)
(*                                                                         *)
(* A class string is a sequence of glyphs: the letters "a" and "b", the    *)
(* blank " ", and the identifier marker "id:x" (one glyph).                *)
(* A class token is a non-empty sequence of non-blank glyphs.              *)
(* The rule's helpers that live in ./tailwindcss and ./ast are modelled    *)
(* from their contracts; the rule body (create, JSXAttribute) is modelled  *)
(* statement by statement.                                                 *)
(***************************************************************************)
EXTENDS Integers, Sequences, FiniteSets, TLC

\* ------------------------------------------------------------------ bounds
\* Total number of glyphs of the class strings of one file.
MaxChars == 4
\* Largest number of extraction spans one attribute yields.
MaxSpans == 2
\* Largest number of class attributes in one file.
MaxAttrs == 2
\* Number of analysis passes over the file (a pass after the first follows a fix).
MaxRounds == 2

\* ------------------------------------------------------------- vocabulary
Letters == {"a", "b"}
Blanks == {" "}
Identifiers == {"x"}
Markers == {"id:x"}
Alphabet == Letters \cup Blanks \cup Markers

NoId == "null"
NoCtx == "null"
Contexts == {"K1"}

AttrNames == {"className", "tw", "id"}

\* ---------------------------------------------------------------- strings
Strings(n) == UNION {[1..k -> Alphabet] : k \in 0..n}

RECURSIVE Concat(_)
Concat(ss) == IF ss = <<>> THEN <<>> ELSE Head(ss) \o Concat(Tail(ss))

RECURSIVE TotalLen(_)
TotalLen(ss) == IF ss = <<>> THEN 0 ELSE Len(Head(ss)) + TotalLen(Tail(ss))

\* ------------------------------------------------- ./tailwindcss helpers
MarkerName(g) == IF g = "id:x" THEN "x" ELSE NoId

\* Index of the first marker glyph of raw, 0 when there is none.
FirstMarker(raw) ==
  IF \E i \in 1..Len(raw) : raw[i] \in Markers
    THEN CHOOSE i \in 1..Len(raw) :
           /\ raw[i] \in Markers
           /\ \A j \in 1..(i - 1) : raw[j] \notin Markers
    ELSE 0

outsourceIdentifierFromClassName(raw) ==
  LET i == FirstMarker(raw) IN
  IF i = 0
    THEN [identifier |-> NoId, className |-> raw]
    ELSE [identifier |-> MarkerName(raw[i]),
          className |-> SubSeq(raw, 1, i - 1) \o SubSeq(raw, i + 1, Len(raw))]

\* Length of the longest prefix of s made of blanks (blank = TRUE) or of
\* non-blanks (blank = FALSE).
RECURSIVE RunLen(_, _)
RunLen(s, blank) ==
  IF s = <<>> \/ ((Head(s) \in Blanks) # blank) THEN 0
  ELSE 1 + RunLen(Tail(s), blank)

\* s = w1 c1 w2 c2 ... cn w(n+1): the tokens c and the blank runs w.
RECURSIVE SplitRuns(_)
SplitRuns(s) ==
  LET w == RunLen(s, TRUE)
      rest == SubSeq(s, w + 1, Len(s))
      c == RunLen(rest, FALSE)
  IN IF c = 0
       THEN [classes |-> <<>>, whitespaces |-> <<SubSeq(s, 1, w)>>]
       ELSE LET more == SplitRuns(SubSeq(rest, c + 1, Len(rest)))
            IN [classes |-> <<SubSeq(rest, 1, c)>> \o more.classes,
                whitespaces |-> <<SubSeq(s, 1, w)>> \o more.whitespaces]

splitClassName(className) ==
  IF \A i \in 1..Len(className) : className[i] \in Blanks
    THEN [isNull |-> TRUE, classes |-> <<>>, whitespaces |-> <<>>]
    ELSE LET runs == SplitRuns(className)
         IN [isNull |-> FALSE, classes |-> runs.classes,
             whitespaces |-> runs.whitespaces]

\* The utilities an oracle context knows, in canonical order.
Utilities(ctx) ==
  IF ctx = "K1" THEN << <<"a">>, <<"a", "a">>, <<"b">>, <<"a", "b">> >>
  ELSE <<>>

\* Canonical rank of a token: its place among the known utilities, and one
\* past the last place when the oracle does not know it.
Rank(tok, ctx) ==
  LET u == Utilities(ctx) IN
  IF \E i \in 1..Len(u) : u[i] = tok
    THEN CHOOSE i \in 1..Len(u) : u[i] = tok
    ELSE Len(u) + 1

\* Stable insertion of tok (the earlier token) before a sorted list.
RECURSIVE InsertStable(_, _, _)
InsertStable(tok, sorted, ctx) ==
  IF sorted = <<>> THEN <<tok>>
  ELSE IF Rank(tok, ctx) <= Rank(Head(sorted), ctx) THEN <<tok>> \o sorted
  ELSE <<Head(sorted)>> \o InsertStable(tok, Tail(sorted), ctx)

RECURSIVE sortTailwindClassList(_, _)
sortTailwindClassList(classes, ctx) ==
  IF classes = <<>> THEN <<>>
  ELSE InsertStable(Head(classes), sortTailwindClassList(Tail(classes), ctx), ctx)

RECURSIVE buildInlineClassName(_, _)
buildInlineClassName(classes, whitespaces) ==
  IF classes = <<>>
    THEN (IF whitespaces = <<>> THEN <<>> ELSE Head(whitespaces))
    ELSE (IF whitespaces = <<>> THEN <<>> ELSE Head(whitespaces))
         \o Head(classes)
         \o buildInlineClassName(Tail(classes),
              IF whitespaces = <<>> THEN <<>> ELSE Tail(whitespaces))

RECURSIVE JoinSpace(_)
JoinSpace(classes) ==
  IF classes = <<>> THEN <<>>
  ELSE IF Len(classes) = 1 THEN Head(classes)
  ELSE Head(classes) \o <<" ">> \o JoinSpace(Tail(classes))

\* The declaration snippet: indentation up to column indent, then the binding
\* of identifier to the space-joined classes.
buildOutsourcedClassName(classes, identifier, indent) ==
  [i \in 1..(indent - 1) |-> " "]
  \o <<"const ", identifier, " = '">> \o JoinSpace(classes) \o <<"';">>

\* ----------------------------------------------------------------- ./ast
\* A regular expression of the configuration, by the attribute names it matches.
DefaultRegex == "/\\b(class|className)\\b/g"
TwRegex == "/^tw$/"
Matches(regex, name) ==
  \/ regex = DefaultRegex /\ name = "className"
  \/ regex = TwRegex /\ name = "tw"

isClassAttribute(node, classNameRegex) ==
  \E i \in 1..Len(classNameRegex) : Matches(classNameRegex[i], node.name)

\* The attribute occupies [0, end) of the source; its literal spans follow one
\* another, each between delimiters.  An attribute without literal (a
\* reference to an identifier) yields no span.
RECURSIVE LayoutSpans(_, _)
LayoutSpans(values, from) ==
  IF values = <<>> THEN <<>>
  ELSE <<[start |-> from, end |-> from + Len(Head(values)), value |-> Head(values)]>>
       \o LayoutSpans(Tail(values), from + Len(Head(values)) + 1)

extractClassNamesFromJSXAttribute(node) == LayoutSpans(node.values, 1)

NodeRange(node) == <<0, TotalLen(node.values) + Len(node.values) + 1>>

\* The last top-level statement of the file ends after the attribute.
LastNode(node) == [end |-> NodeRange(node)[2] + 1, column |-> 0]

\* ------------------------------------------------------------ rule options
DefaultOptions == [kind |-> "none", regex |-> <<>>, overwrite |-> "absent"]

RegexOptions ==
  {DefaultOptions, [kind |-> "RegExp", regex |-> <<TwRegex>>, overwrite |-> "absent"]}
  \cup {[kind |-> "set", regex |-> <<TwRegex>>, overwrite |-> o] :
          o \in {"true", "false", "absent"}}

\* What the environment answers: whether a configuration path resolves and
\* what loading it yields.
Environments ==
  {[pathResolved |-> FALSE, loads |-> NoCtx]}
  \cup {[pathResolved |-> TRUE, loads |-> c] : c \in Contexts \cup {NoCtx}}

Attr(n, vs) == [name |-> n, values |-> vs]

\* The pieces of s between the cut positions cuts (non-decreasing, in 0..Len(s)).
RECURSIVE Pieces(_, _, _)
Pieces(s, cuts, from) ==
  IF cuts = <<>> THEN <<SubSeq(s, from + 1, Len(s))>>
  ELSE <<SubSeq(s, from + 1, Head(cuts))>> \o Pieces(s, Tail(cuts), Head(cuts))

NonDecreasing(cuts) == \A i \in 1..(Len(cuts) - 1) : cuts[i] <= cuts[i + 1]

\* A file of one class attribute whose literal spans are the pieces of s.
FileOfSpans(s, cuts) == <<Attr("className", Pieces(s, cuts, 0))>>

\* A file of class attributes of one literal each, the pieces of s.
FileOfAttrs(s, cuts) ==
  [i \in 1..(Len(cuts) + 1) |-> Attr("className", <<Pieces(s, cuts, 0)[i]>>)]

EmptyRegistry == [id \in Identifiers |-> <<>>]

VARIABLES
  options,                  \* context.options[0].classNameRegex
  env,                      \* outcome of resolving and loading the oracle configuration
  file,                     \* the attributes of the source file, in visiting order
  pc,                       \* "start": before create; "pass": listeners installed
  round,                    \* number of the analysis pass
  pos,                      \* attributes visited in this pass
  tailwindContext,          \* the OrderContext of the pass, NoCtx when absent
  classNameRegex,           \* the attribute matchers of the pass
  warnings,                 \* console.warn calls of create, in order
  extractedTailwindClasses, \* the ExtractionRegistry
  reports,                  \* reports[k]: context.report calls of the k-th visit
  fixed                     \* the fix applied before this pass, <<>> when none

vars == <<options, env, file, pc, round, pos, tailwindContext, classNameRegex,
          warnings, extractedTailwindClasses, reports, fixed>>

\* -------------------------------------------------------------- create()
\* The matchers, from the classNameRegex option.
\* Variant: the overwrite flag read the wrong way round.
ClassNameRegexOf_Swapped(config) ==
  IF config.kind = "none" THEN <<DefaultRegex>>
  ELSE IF config.kind = "RegExp" THEN config.regex
  ELSE IF config.overwrite = "true" THEN <<DefaultRegex>> \o config.regex
  ELSE config.regex

ClassNameRegexOf(config) ==
  IF config.kind = "none" THEN <<DefaultRegex>>
  ELSE IF config.kind = "RegExp" THEN config.regex
  ELSE IF config.overwrite = "true" THEN config.regex
  ELSE <<DefaultRegex>> \o config.regex

TailwindContextOf(e) == IF e.pathResolved THEN e.loads ELSE NoCtx

WarningsOf(e) ==
  (IF e.pathResolved THEN <<>> ELSE <<"Failed to resolve path">>)
  \o (IF TailwindContextOf(e) = NoCtx THEN <<"Failed to load">> ELSE <<>>)

Create ==
  /\ pc = "start"
  /\ pc' = "pass"
  /\ extractedTailwindClasses' = EmptyRegistry
  /\ tailwindContext' = TailwindContextOf(env)
  /\ warnings' = WarningsOf(env)
  /\ classNameRegex' = ClassNameRegexOf(options)
  /\ reports' = <<>>
  /\ pos' = 0
  /\ UNCHANGED <<options, env, file, round, fixed>>

\* ------------------------------------------------------- JSXAttribute(node)
\* Variant: the null check dropped and < written for <=.
SkipSpan_Strict(splitted) == ~splitted.isNull /\ Len(splitted.classes) < 0

SkipSpan(splitted) == splitted.isNull \/ Len(splitted.classes) <= 0

JustSort(identifier, ctx) == identifier = NoId /\ ctx # NoCtx

\* Variant: the comparison dropped.
OrderDiffers_Always(sortedClasses, classes) == TRUE

OrderDiffers(sortedClasses, classes) == Concat(sortedClasses) # Concat(classes)

\* Variant: the fix rebuilt from the tokens in source order.
OrderFixText_Unsorted(sortedClasses, splitted) ==
  buildInlineClassName(splitted.classes, splitted.whitespaces)

OrderFixText(sortedClasses, splitted) ==
  buildInlineClassName(sortedClasses, splitted.whitespaces)

OrderReport(start, end, sortedClasses, splitted) ==
  [messageId |-> "invalidOrder",
   fix |-> <<[kind |-> "replaceTextRange", range |-> <<start, end>>,
              text |-> OrderFixText(sortedClasses, splitted)]>>]

\* Variant: the entry sorted even without OrderContext.
RegistryEntry_AlwaysSorted(classes, ctx) ==
  sortTailwindClassList(classes, IF ctx # NoCtx THEN ctx ELSE "K1")

RegistryEntry(classes, ctx) ==
  IF ctx # NoCtx THEN sortTailwindClassList(classes, ctx) ELSE classes

\* Variant: a second list for an identifier appended to the first.
StoreExtracted_Merge(registry, identifier, entry) ==
  [registry EXCEPT ![identifier] = IF @ = <<>> THEN <<entry>> ELSE <<@[1] \o entry>>]

StoreExtracted(registry, identifier, entry) ==
  [registry EXCEPT ![identifier] = <<entry>>]

ReferenceText(identifier) == <<"className={", identifier, "}">>

\* The classes handed to buildOutsourcedClassName.
DeclaredClasses(splitted, ctx) == splitted.classes

InlineReport(n, identifier, splitted, ctx) ==
  [messageId |-> "invalidInline",
   fix |-> <<[kind |-> "replaceText", range |-> NodeRange(n),
              text |-> ReferenceText(identifier)],
             [kind |-> "insertTextAfter",
              range |-> <<LastNode(n).end, LastNode(n).end>>,
              text |-> <<"\n\n">> \o buildOutsourcedClassName(
                         DeclaredClasses(splitted, ctx), identifier,
                         LastNode(n).column + 1)]>>]

\* One turn of the loop over the extraction spans; acc carries the reports
\* made and the registry so far.
ProcessSpan(acc, span, n, ctx) ==
  LET out == outsourceIdentifierFromClassName(span.value)
      identifier == out.identifier
      splitted == splitClassName(out.className)
  IN IF SkipSpan(splitted) THEN acc
     ELSE
       LET sortedClasses == sortTailwindClassList(splitted.classes, ctx)
           afterSort ==
             IF JustSort(identifier, ctx) /\ OrderDiffers(sortedClasses, splitted.classes)
               THEN Append(acc.reports,
                           OrderReport(span.start, span.end, sortedClasses, splitted))
               ELSE acc.reports
       IN IF identifier # NoId
            THEN [reports |-> Append(afterSort,
                                InlineReport(n, identifier, splitted, ctx)),
                  registry |-> StoreExtracted(acc.registry, identifier,
                                RegistryEntry(splitted.classes, ctx))]
            ELSE [reports |-> afterSort, registry |-> acc.registry]

RECURSIVE ProcessSpans(_, _, _, _)
ProcessSpans(acc, spans, n, ctx) ==
  IF spans = <<>> THEN acc
  ELSE ProcessSpans(ProcessSpan(acc, Head(spans), n, ctx), Tail(spans), n, ctx)

JSXAttribute(n, matchers, ctx, registry) ==
  IF ~isClassAttribute(n, matchers)
    THEN [reports |-> <<>>, registry |-> registry]
    ELSE ProcessSpans([reports |-> <<>>, registry |-> registry],
                      extractClassNamesFromJSXAttribute(n), n, ctx)

\* The host visits the next attribute of the file.
Visit ==
  /\ pc = "pass"
  /\ pos < Len(file)
  /\ LET r == JSXAttribute(file[pos + 1], classNameRegex, tailwindContext,
                           extractedTailwindClasses)
     IN /\ reports' = Append(reports, r.reports)
        /\ extractedTailwindClasses' = r.registry
  /\ pos' = pos + 1
  /\ UNCHANGED <<options, env, file, pc, round, tailwindContext, classNameRegex,
                 warnings, fixed>>

\* ------------------------------------------------------ the host's fixer
\* The attribute after the edits of one fix: a replaceTextRange edit rewrites
\* the literal whose range it names, a replaceText edit of the whole node
\* leaves a reference to an identifier (an attribute without literal).
RECURSIVE RewriteValues(_, _, _)
RewriteValues(values, from, edit) ==
  IF values = <<>> THEN <<>>
  ELSE <<IF edit.range = <<from, from + Len(Head(values))>>
           THEN edit.text ELSE Head(values)>>
       \o RewriteValues(Tail(values), from + Len(Head(values)) + 1, edit)

ApplyEdits(n, fix) ==
  IF fix[1].kind = "replaceText"
    THEN Attr("className", <<>>)
    ELSE Attr(n.name, RewriteValues(n.values, 1, fix[1]))

\* The pass is over; the host applies the fix of one report and analyses the
\* file again.
ApplyFix ==
  /\ pc = "pass"
  /\ pos = Len(file)
  /\ round < MaxRounds
  /\ \E k \in 1..Len(file) : \E i \in 1..Len(reports[k]) :
       /\ file' = [file EXCEPT ![k] = ApplyEdits(file[k], reports[k][i].fix)]
       /\ fixed' = <<[attr |-> k, report |-> reports[k][i]]>>
  /\ pc' = "start"
  /\ round' = round + 1
  /\ UNCHANGED <<options, env, pos, tailwindContext, classNameRegex, warnings,
                 extractedTailwindClasses, reports>>

InitFile ==
  \E len \in 0..MaxChars : \E s \in [1..len -> Alphabet] :
    \* one class attribute, a reference or up to MaxSpans literals
    \/ /\ options = DefaultOptions
       /\ \/ len = 0 /\ file = <<Attr("className", <<>>)>>
          \/ \E m \in 1..MaxSpans : \E cuts \in [1..(m - 1) -> 0..len] :
               NonDecreasing(cuts) /\ file = FileOfSpans(s, cuts)
    \* several class attributes of one literal each
    \/ /\ options = DefaultOptions
       /\ \E m \in 2..MaxAttrs : \E cuts \in [1..(m - 1) -> 0..len] :
            NonDecreasing(cuts) /\ file = FileOfAttrs(s, cuts)
    \* one attribute of any name under any classNameRegex option
    \/ /\ options \in RegexOptions
       /\ \E n \in AttrNames : file = <<Attr(n, <<s>>)>>

Init ==
  /\ env \in Environments
  /\ InitFile
  /\ pc = "start"
  /\ round = 1
  /\ pos = 0
  /\ tailwindContext = NoCtx
  /\ classNameRegex = <<>>
  /\ warnings = <<>>
  /\ extractedTailwindClasses = EmptyRegistry
  /\ reports = <<>>
  /\ fixed = <<>>

Next == Create \/ Visit \/ ApplyFix

Spec == Init /\ [][Next]_vars
\* ======================================================== the claims
\* What a claim says of the k-th visited attribute is stated from the
\* attribute's spans, not from the loop that processed them.
Visited == IF pc = "pass" THEN 1..pos ELSE {}
Matched(k) == \E i \in 1..Len(classNameRegex) : Matches(classNameRegex[i], file[k].name)
SpansOf(k) == IF Matched(k) THEN extractClassNamesFromJSXAttribute(file[k]) ELSE <<>>
IdOf(span) == outsourceIdentifierFromClassName(span.value).identifier
SplitOf(span) ==
  splitClassName(outsourceIdentifierFromClassName(span.value).className)
TokensOf(span) == SplitOf(span).classes
Skipped(span) == SplitOf(span).isNull \/ TokensOf(span) = <<>>
Requests(span) == IdOf(span) # NoId
Extracts(span) == Requests(span) /\ ~Skipped(span)
SortedOf(span) == sortTailwindClassList(TokensOf(span), tailwindContext)

\* The whitespace runs of the span interleaved with the given tokens.
RECURSIVE Interleave(_, _)
Interleave(ws, toks) ==
  IF toks = <<>> THEN Head(ws)
  ELSE Head(ws) \o Head(toks) \o Interleave(Tail(ws), Tail(toks))

InlineIn(rs) == SelectSeq(rs, LAMBDA d : d.messageId = "invalidInline")
OrderIn(rs) == SelectSeq(rs, LAMBDA d : d.messageId = "invalidOrder")
InlineReportsOf(k) == InlineIn(reports[k])
OrderReportsOf(k) == OrderIn(reports[k])

\* The invalidInline diagnostic of a span of attribute k that declares toks.
ExpectedInline(k, span, toks) ==
  [messageId |-> "invalidInline",
   fix |-> <<[kind |-> "replaceText", range |-> NodeRange(file[k]),
              text |-> <<"className={", IdOf(span), "}">>],
             [kind |-> "insertTextAfter",
              range |-> <<LastNode(file[k]).end, LastNode(file[k]).end>>,
              text |-> <<"\n\n", "const ", IdOf(span), " = '">>
                       \o JoinSpace(toks) \o <<"';">>]>>]

ExpectedOrder(span) ==
  [messageId |-> "invalidOrder",
   fix |-> <<[kind |-> "replaceTextRange", range |-> <<span.start, span.end>>,
              text |-> Interleave(SplitOf(span).whitespaces, SortedOf(span))]>>]

\* The spans of all visited attributes, in visiting order.
RECURSIVE SpansUpTo(_)
SpansUpTo(k) == IF k = 0 THEN <<>> ELSE SpansUpTo(k - 1) \o SpansOf(k)
VisitedSpans == IF pc = "pass" THEN SpansUpTo(pos) ELSE <<>>

Last(q) == q[Len(q)]

\* C1: with an OrderContext, every span with an identifier marker gets one
\* invalidInline diagnostic whose fix replaces the attribute by
\* className={identifier} and inserts after the last top-level statement a
\* declaration of the canonically ordered tokens.
C1_ExtractionDeclaresSorted ==
  \A k \in Visited :
    tailwindContext # NoCtx =>
      LET q == SelectSeq(SpansOf(k), Extracts)
      IN InlineReportsOf(k) =
           [i \in 1..Len(q) |-> ExpectedInline(k, q[i], SortedOf(q[i]))]

\* C2: with an OrderContext, a span without marker whose sorted token sequence
\* differs from its token sequence gets exactly one invalidOrder diagnostic
\* whose fix replaces [start, end) by the whitespace runs interleaved with the
\* sorted tokens.
C2_ReorderWhenSequencesDiffer ==
  \A k \in Visited : \A i \in 1..Len(SpansOf(k)) :
    LET span == SpansOf(k)[i] IN
    (/\ tailwindContext # NoCtx
     /\ ~Requests(span)
     /\ ~Skipped(span)
     /\ SortedOf(span) # TokensOf(span))
    => Len(SelectSeq(reports[k], LAMBDA d : d = ExpectedOrder(span))) = 1
       /\ Len(SelectSeq(OrderReportsOf(k),
                LAMBDA d : d.fix[1].range = <<span.start, span.end>>)) = 1

\* C3: after the fix of a reported diagnostic has been applied and the file is
\* analysed again, no diagnostic is reported for the fixed content: none on the
\* range of a reordered span, none at all on an extracted attribute.
C3_FixIsIdempotent ==
  (pc = "pass" /\ fixed # <<>> /\ pos >= fixed[1].attr) =>
    LET k == fixed[1].attr
        d == fixed[1].report
    IN IF d.messageId = "invalidOrder"
         THEN \A i \in 1..Len(reports[k]) :
                reports[k][i].fix[1].range # d.fix[1].range
         ELSE reports[k] = <<>>

C3_Witness ==
  /\ pc = "pass"
  /\ fixed # <<>>
  /\ pos = Len(file)
  /\ fixed[1].report.messageId = "invalidOrder"
  /\ Len(file[fixed[1].attr].values) = 2
  /\ reports[fixed[1].attr] = <<>>

\* C4: an attribute all of whose spans carry no marker and are in canonical
\* order gets no diagnostic, whatever its whitespace runs are.
C4_CanonicalIsNoOp ==
  \A k \in Visited :
    (\A i \in 1..Len(SpansOf(k)) :
       ~Requests(SpansOf(k)[i]) /\ SortedOf(SpansOf(k)[i]) = TokensOf(SpansOf(k)[i]))
    => reports[k] = <<>>

C4_Witness ==
  /\ pc = "pass" /\ pos = 1 /\ Matched(1)
  /\ tailwindContext = "K1"
  /\ file[1].values = << <<" ", "a", " ", "b">> >>
  /\ reports[1] = <<>>

\* The registry the visited spans leave: for every identifier the tokens of
\* the last span that extracts it, sorted or in source order.
ExpectedRegistry(sorted) ==
  [id \in Identifiers |->
     LET q == SelectSeq(VisitedSpans, LAMBDA sp : IdOf(sp) = id /\ Extracts(sp))
     IN IF q = <<>> THEN <<>>
        ELSE <<IF sorted THEN SortedOf(Last(q)) ELSE TokensOf(Last(q))>>]

\* C5: without OrderContext no span gets an invalidOrder diagnostic, and every
\* span with a marker and tokens gets an invalidInline diagnostic whose
\* registry entry and declaration hold the tokens in source order.
C5_NoConfigFallback ==
  (pc = "pass" /\ tailwindContext = NoCtx) =>
    /\ \A k \in Visited :
         /\ OrderReportsOf(k) = <<>>
         /\ LET q == SelectSeq(SpansOf(k), Extracts)
            IN reports[k] =
                 [i \in 1..Len(q) |-> ExpectedInline(k, q[i], TokensOf(q[i]))]
    /\ extractedTailwindClasses = ExpectedRegistry(FALSE)

C5_Witness ==
  /\ pc = "pass" /\ pos = 1 /\ Matched(1)
  /\ tailwindContext = NoCtx
  /\ file[1].values = << <<"b", " ", "a", "id:x">> >>
  /\ Len(reports[1]) = 1
  /\ extractedTailwindClasses["x"] = << << <<"b">>, <<"a">> >> >>

Overlap(r1, r2) == r1[1] < r2[2] /\ r2[1] < r1[2]

\* C6: the edit ranges of the fixes emitted for different spans of one
\* attribute never overlap.
C6_FixesAreDisjoint ==
  \A k \in Visited : \A i, j \in 1..Len(reports[k]) :
    i < j =>
      \A e1 \in 1..Len(reports[k][i].fix) : \A e2 \in 1..Len(reports[k][j].fix) :
        ~Overlap(reports[k][i].fix[e1].range, reports[k][j].fix[e2].range)

\* C7: the matchers are the default one without classNameRegex option, the
\* supplied ones with overwrite, the default one followed by the supplied ones
\* without overwrite, the supplied one for a single RegExp; an attribute that
\* matches none of them gets no diagnostic and writes nothing to the registry.
C7_MatcherConfiguration ==
  pc = "pass" =>
    /\ options.kind = "none" => classNameRegex = <<DefaultRegex>>
    /\ (options.kind = "set" /\ options.overwrite = "true")
         => classNameRegex = options.regex
    /\ (options.kind = "set" /\ options.overwrite \in {"false", "absent"})
         => classNameRegex = <<DefaultRegex>> \o options.regex
    /\ options.kind = "RegExp" => classNameRegex = options.regex
    /\ \A k \in Visited : ~Matched(k) => reports[k] = <<>>
    /\ (\A k \in Visited : ~Matched(k)) => extractedTailwindClasses = EmptyRegistry

C7_Witness ==
  /\ pc = "pass" /\ pos = 1
  /\ options.kind = "set" /\ options.overwrite = "true"
  /\ file[1] = Attr("className", << <<"b", "id:x">> >>)
  /\ reports[1] = <<>>
  /\ extractedTailwindClasses = EmptyRegistry

\* C8 as stated: the entry of an identifier is the token list of the span that
\* requested it last, whatever that span holds.
C8_LastRequestWins ==
  pc = "pass" =>
    \A id \in Identifiers :
      LET q == SelectSeq(VisitedSpans, LAMBDA sp : IdOf(sp) = id)
      IN /\ q = <<>> => extractedTailwindClasses[id] = <<>>
         /\ (q # <<>> /\ extractedTailwindClasses[id] # <<>>)
              => extractedTailwindClasses[id] =
                   <<IF tailwindContext # NoCtx THEN SortedOf(Last(q))
                     ELSE TokensOf(Last(q))>>

\* C8 amended: the registry is empty when a pass starts, and the entry of an
\* identifier is the token list (sorted with an OrderContext, in source order
\* without) of the last visited span that requested it and held a token; an
\* earlier list is overwritten, not merged.
EntryOf(span) == IF tailwindContext # NoCtx THEN SortedOf(span) ELSE TokensOf(span)

C8_LastWriteWins ==
  pc = "pass" =>
    /\ extractedTailwindClasses = ExpectedRegistry(tailwindContext # NoCtx)
    /\ pos = 0 => extractedTailwindClasses = EmptyRegistry

C8_Witness ==
  /\ pc = "pass" /\ pos = 2
  /\ Len(SelectSeq(VisitedSpans, Extracts)) = 2
  /\ TokensOf(VisitedSpans[1]) # TokensOf(VisitedSpans[2])
  /\ extractedTailwindClasses["x"] = <<EntryOf(VisitedSpans[2])>>

\* C9: a span whose class string holds no token is skipped, with or without
\* marker, with or without OrderContext: every diagnostic of the visit belongs
\* to a span that holds a token, the spans after a skipped one are still
\* processed, and the registry keeps the entry of every identifier that no
\* token-holding span of the attribute requests.
C9_SkipIsNoOp ==
  [][(pc = "pass" /\ pos' = pos + 1) =>
       LET k == pos'
           kept == SelectSeq(SpansOf(k), LAMBDA sp : ~Skipped(sp))
           rs == reports'[k]
       IN /\ \A i \in 1..Len(rs) : \E j \in 1..Len(kept) :
               \/ /\ rs[i].messageId = "invalidOrder"
                  /\ ~Requests(kept[j])
                  /\ rs[i].fix[1].range = <<kept[j].start, kept[j].end>>
               \/ /\ rs[i].messageId = "invalidInline"
                  /\ Requests(kept[j])
          /\ Len(InlineIn(rs)) = Len(SelectSeq(kept, Requests))
          /\ Len(OrderIn(rs)) <= Len(kept) - Len(SelectSeq(kept, Requests))
          /\ \A id \in Identifiers :
               (\A j \in 1..Len(kept) : IdOf(kept[j]) # id)
                 => extractedTailwindClasses'[id] = extractedTailwindClasses[id]
    ]_vars

C9_Witness ==
  /\ pc = "pass" /\ pos = 1 /\ Matched(1)
  /\ file[1].values = << <<" ", "id:x">>, <<"b", "id:x">> >>
  /\ Len(reports[1]) = 1
  /\ extractedTailwindClasses["x"] = << << <<"b">> >> >>

\* C10: when the configuration path cannot be resolved, create emits exactly
\* one warning and the pass has no OrderContext.
C10_ResolutionFailureLoggedOnce ==
  (pc = "pass" /\ ~env.pathResolved) =>
    Len(warnings) = 1 /\ tailwindContext = NoCtx
====
